---- MODULE Spec2Model ----
(***************************************************************************)
(* Continuation engine of claude-tooling: one conversation, its history,   *)
(* task status, auto-execute counter and progress snapshot, driven by the  *)
(* chat / tool-results / resume / cancel routes and by background cycles   *)
(* (process_tool_calls_and_continue).  A task runs without interruption    *)
(* between its suspension points: the start of a scheduled background      *)
(* task, a tool dispatch, and the off-loaded upstream call.                *)
(***************************************************************************)
EXTENDS Integers, Sequences, FiniteSets, TLC

\* ---------------------------------------------------------------- bounds
\* Number of background-task slots (cycles that can be live at once).
MaxTasks == 2

\* progress tracker: concurrent update calls, updates issued, reads made
MaxWriters == 2
MaxUpdates == 3
MaxReads == 3
\* Environment budgets of the three explored workloads: overlapping chat
\* turns and cancels in every interleaving; one request at a time with
\* manual tool results, resumes and failures; and a long run of automatic
\* cycles that reaches the ceiling.
MixedCalls == 2
MixedEvents == 2
MixedBatch == 1
ManualCalls == 4
ManualEvents == 3
ManualBatch == 2
LongCalls == 14
LongChats == 2
LongCancels == 1
LongResumes == 1

\* termination: a run long enough to reach the ceiling, with few requests of
\* any kind in between
LiveCalls == 12
LiveEvents == 2

\* a pause followed by requests of every kind, one at a time
PauseCalls == 13
PauseEvents == 3

\* the dictionaries: clients, clock seconds in which ids are made, operations
MaxClients == 2
MaxSeconds == 2
MaxStoreOps == 4

\* ------------------------------------------------------ program constants
\* tool_execution.py:462  `if current_count > 10`
AutoExecuteLimit == 10

VARIABLES
    exists,        \* conversation_id in conversations
    history,       \* conversations[conversation_id]
    taskStatus,    \* auto_execute_tasks.get(conversation_id), "none" if absent
    autoCount,     \* auto_execute_counts.get(conversation_id, 0)
    progress,      \* request_progress.get(conversation_id), "none" if absent
    tasks,         \* background cycles: slot -> frame of process_tool_calls_and_continue
    chat,          \* the chat route's request in flight
    sent,          \* the request most recently handed to client.messages.create
    nextId,        \* tool_use ids issued so far by the upstream model
    last,          \* the step taken last: operation, HTTP status code, task
    cancelReq,     \* cycles that were live when a cancel request was served
    env,           \* what the environment may still do (remaining budgets)
    tracker,       \* the progress tracker seen call by call: lock, stored
                   \* snapshot, position of each update call, last read
    store,         \* the process-wide dictionaries keyed by conversation id,
                   \* seen by two clients that each started a conversation
    applied        \* a function of the engine examined on its own: its
                   \* inputs, how far it has run and what it has produced

vars == <<exists, history, taskStatus, autoCount, progress, tasks, chat,
          sent, nextId, last, cancelReq, env, tracker, store, applied>>

\* ---------------------------------------------------------------- messages
\* A history entry: role, content (kind of text, tool_use ids, tool_result
\* blocks) and the internal keys is_placeholder / is_status / is_temporary /
\* id (ref = the tool id inside the id string, ts = its timestamp part).
Msg(role, kind) ==
    [role |-> role, kind |-> kind, uses |-> <<>>, res |-> <<>>,
     ph |-> FALSE, st |-> FALSE, tmp |-> FALSE, ref |-> 0, ts |-> 0]

UserText == Msg("user", "text")

AssistantMsg(ids) == [Msg("assistant", "reply") EXCEPT !.uses = ids]

ResultsMsg(blocks) == [Msg("user", "results") EXCEPT !.res = blocks]

SystemNote(kind) == Msg("system", kind)

ExecStatusMsg(id, ts) ==
    [Msg("system", "executing") EXCEPT !.st = TRUE, !.ref = id, !.ts = ts]

DoneStatusMsg(id) ==
    [Msg("system", "executed") EXCEPT !.st = TRUE, !.tmp = TRUE, !.ref = id]

StartStatusMsg == [Msg("system", "starting") EXCEPT !.st = TRUE]

PlaceholderMsg(ts) ==
    [Msg("assistant", "thinking") EXCEPT !.ph = TRUE, !.ts = ts]

\* clean_msg: only role and content survive
CleanMsg(m) == [role |-> m.role, kind |-> m.kind, uses |-> m.uses, res |-> m.res]

\* number of tool_use blocks in a response: none, one, or a full batch
ReplySizes(b) == {0, 1, b}

Ids(n, from) == [k \in 1..n |-> from + k]

SeqToSet(s) == {s[k] : k \in 1..Len(s)}

ResIds(m) == {m.res[k].id : k \in 1..Len(m.res)}


\* ------------------------------------------------------ history operations
\* tool_execution.py:141-144  drop the "executing" status message by its id
RemoveExecMsg(h, id, ts) ==
    SelectSeq(h, LAMBDA m :
        ~(m.st /\ m.kind = "executing" /\ m.ref = id /\ m.ts = ts))

StripTemporaryAndNotes(h) == SelectSeq(h, LAMBDA m : ~m.tmp /\ m.role # "system")

\* tool_execution.py:197-200  drop every is_temporary message
StripTemporary(h) == SelectSeq(h, LAMBDA m : ~m.tmp)

\* tool_execution.py:362-365  drop the placeholder by its id
RemovePlaceholder(h, ts) ==
    SelectSeq(h, LAMBDA m : ~(m.ph /\ m.kind = "thinking" /\ m.ts = ts))

\* tool_execution.py:253  system_messages
SystemMessages(h) == SelectSeq(h, LAMBDA m : m.role = "system")

\* tool_execution.py:256-264  api_messages before the pairing fix
RECURSIVE ApiMessages(_)
ApiMessages(h) ==
    IF h = <<>> THEN <<>>
    ELSE IF Head(h).role # "system"
         THEN <<CleanMsg(Head(h))>> \o ApiMessages(Tail(h))
         ELSE ApiMessages(Tail(h))

\* tool_execution.py:269-278  membership in tool_use_indices
IsToolUse(m) == m.role = "assistant" /\ Len(m.uses) > 0

HasToolResultGiven(msgs, i) ==
    /\ i + 1 <= Len(msgs)
    /\ msgs[i + 1].role = "user"
    /\ \E k \in 1..Len(msgs[i + 1].res) : msgs[i + 1].res[k].out # "none"

\* tool_execution.py:295-304  has_tool_result of the following message
HasToolResult(msgs, i) ==
    /\ i + 1 <= Len(msgs)
    /\ msgs[i + 1].role = "user"
    /\ Len(msgs[i + 1].res) > 0

EmptyResultsFirstOnly(m) ==
    [role |-> "user", kind |-> "results", uses |-> <<>>,
     res |-> <<[id |-> m.uses[1], out |-> "none"]>>]

\* tool_execution.py:309-325  the synthesized "No result available" message
EmptyResults(m) ==
    [role |-> "user", kind |-> "results", uses |-> <<>>,
     res |-> [k \in 1..Len(m.uses) |-> [id |-> m.uses[k], out |-> "none"]]]

\* tool_execution.py:281-330  the pairing fix (fixed_messages)
RECURSIVE FixFrom(_, _)
FixFrom(msgs, i) ==
    IF i > Len(msgs) THEN <<>>
    ELSE IF IsToolUse(msgs[i])
         THEN IF HasToolResult(msgs, i)
              THEN <<msgs[i], msgs[i + 1]>> \o FixFrom(msgs, i + 2)
              ELSE <<msgs[i], EmptyResults(msgs[i])>> \o FixFrom(msgs, i + 1)
         ELSE <<msgs[i]>> \o FixFrom(msgs, i + 1)

\* (the pass runs on the value of the list it is given)
Repair(msgs) == CHOOSE r \in {FixFrom(m, 1) : m \in {msgs}} : TRUE

DisplayHistoryPlaceholderOnly(h) ==
    IF \E k \in 1..Len(h) : h[k].ph \/ h[k].tmp
    THEN SelectSeq(h, LAMBDA m : ~m.ph)
    ELSE h

\* conversation.py (routes):87-90  display_history
DisplayHistory(h) ==
    IF \E k \in 1..Len(h) : h[k].ph \/ h[k].tmp
    THEN SelectSeq(h, LAMBDA m : ~m.ph /\ ~m.tmp)
    ELSE h

\* conversation.py (routes):56-82  the status the messages endpoint reports
PollStatus(h, ts) ==
    IF ts = "paused" THEN "paused"
    ELSE IF ts \in {"waiting_for_claude", "executing_tool", "running"} THEN ts
    ELSE LET real == SelectSeq(h, LAMBDA m : ~m.ph /\ ~m.st)
         IN IF Len(real) > 0 /\ real[Len(real)].role = "assistant"
               /\ Len(real[Len(real)].uses) = 0
            THEN "completed" ELSE "in_progress"

\* ---------------------------------------------------------- progress tracker
\* update_progress: the snapshot it stores (overwriting the previous one)
Snapshot(status, step, pct) == [status |-> status, step |-> step, pct |-> pct]

\* update_progress: the task status it leaves (tests read it from
\* auto_execute_tasks after a cycle)
StatusAfterUpdate(old, status) == status

ToolPctCeiling(i, n) == 25 + ((25 * i + n - 1) \div n)

\* tool_execution.py:159-165  percentage after the i-th of n tools
ToolPct(i, n) == 25 + ((25 * i) \div n)

TerminalWide ==
    {"cancelled", "error", "paused", "completed", "preparing_tool_execution"}

\* tool_execution.py:535  statuses the final clean-up leaves alone
Terminal == {"cancelled", "error", "paused", "completed"}


\* ------------------------------------------- progress tracker, call by call
\* The tracker of one conversation id with its update calls spelled out:
\* each call takes the conversation's lock, writes status, step, message and
\* percentage, then the timestamp, and releases the lock.  Update calls are
\* numbered 1, 2, ... in the order they take the lock; every field of the
\* stored snapshot records the number of the call that wrote it, 0 = absent.
Writers == 1..MaxWriters

Whole(k) == [status |-> k, step |-> k, message |-> k, pct |-> k, timestamp |-> k]

\* read of a conversation never updated
Absent == Whole(0)

TrackerIdle ==
    [lock |-> 0, store |-> Absent, pc |-> [w \in Writers |-> "idle"],
     arg |-> [w \in Writers |-> 0], issued |-> 0, done |-> 0,
     reads |-> 0, seen |-> Absent]

LockIgnored(l) == TRUE

\* the per-conversation exclusion: a call enters only when nobody holds it
LockFree(l) == l = 0

StoreFieldsKeepStatus(stored, k) ==
    [stored EXCEPT !.status = IF stored.status = 0 THEN k ELSE stored.status,
                  !.step = k, !.message = k, !.pct = k]

\* update: the four caller-supplied fields replace the stored ones
StoreFields(stored, k) ==
    [stored EXCEPT !.status = k, !.step = k, !.message = k, !.pct = k]

\* update: the timestamp assignment that ends the write
StoreTimestamp(stored, k) == [stored EXCEPT !.timestamp = k]

\* read: the stored snapshot as it is, absent when never updated
ReadProgress(stored) == stored

\* update(conversationId, ...) is called and enters its critical section
TrackerEnter(w) ==
    /\ tracker.pc[w] = "idle"
    /\ tracker.issued < MaxUpdates
    /\ LockFree(tracker.lock)
    /\ tracker' = [tracker EXCEPT !.lock = w, !.pc[w] = "fields",
                                  !.arg[w] = tracker.issued + 1,
                                  !.issued = tracker.issued + 1]
    /\ UNCHANGED <<exists, history, taskStatus, autoCount, progress, tasks,
                   chat, sent, nextId, last, cancelReq, env, store, applied>>

TrackerFields(w) ==
    /\ tracker.pc[w] = "fields"
    /\ tracker' = [tracker EXCEPT !.store = StoreFields(tracker.store, tracker.arg[w]),
                                  !.pc[w] = "stamp"]
    /\ UNCHANGED <<exists, history, taskStatus, autoCount, progress, tasks,
                   chat, sent, nextId, last, cancelReq, env, store, applied>>

TrackerStamp(w) ==
    /\ tracker.pc[w] = "stamp"
    /\ tracker' = [tracker EXCEPT !.store = StoreTimestamp(tracker.store, tracker.arg[w]),
                                  !.pc[w] = "leave"]
    /\ UNCHANGED <<exists, history, taskStatus, autoCount, progress, tasks,
                   chat, sent, nextId, last, cancelReq, env, store, applied>>

\* the update call completes: the lock is given back
TrackerLeave(w) ==
    /\ tracker.pc[w] = "leave"
    /\ tracker' = [tracker EXCEPT !.lock = IF tracker.lock = w THEN 0 ELSE tracker.lock,
                                  !.done = tracker.arg[w],
                                  !.pc[w] = "idle"]
    /\ UNCHANGED <<exists, history, taskStatus, autoCount, progress, tasks,
                   chat, sent, nextId, last, cancelReq, env, store, applied>>

\* read(conversationId): ordered with the writes by the same exclusion
TrackerRead ==
    /\ tracker.reads < MaxReads
    /\ LockFree(tracker.lock)
    /\ tracker' = [tracker EXCEPT !.seen = ReadProgress(tracker.store),
                                  !.reads = tracker.reads + 1]
    /\ UNCHANGED <<exists, history, taskStatus, autoCount, progress, tasks,
                   chat, sent, nextId, last, cancelReq, env, store, applied>>

NextTracker ==
    \/ \E w \in Writers : TrackerEnter(w)
    \/ \E w \in Writers : TrackerFields(w)
    \/ \E w \in Writers : TrackerStamp(w)
    \/ \E w \in Writers : TrackerLeave(w)
    \/ TrackerRead


\* ------------------------------------------- the dictionaries, id by id
\* conversation.py:17-21  conversations, auto_execute_tasks,
\* auto_execute_counts (and the progress map) keyed by conversation id; an id
\* made by the server is conv_<seconds>, here the number of the second.
Clients == 1..MaxClients

Seconds == 1..MaxSeconds

StoreEmpty ==
    [conversations |-> [i \in Seconds |-> <<>>],
     auto_execute_tasks |-> [i \in Seconds |-> "none"],
     auto_execute_counts |-> [i \in Seconds |-> 0],
     request_progress |-> [i \in Seconds |-> Snapshot("none", "none", 0)],
     owner |-> [c \in Clients |-> 0],
     clock |-> 0, ops |-> 0, by |-> 0, kind |-> "none"]

\* chat.py:65  int(time.time()): the second of the previous id or a later one
NewIds(clock) == {i \in Seconds : i = clock \/ i = clock + 1}

\* what a client reads of the conversation it started
ViewOf(s, c) ==
    [history |-> s.conversations[s.owner[c]],
     taskStatus |-> s.auto_execute_tasks[s.owner[c]],
     autoExecuteCount |-> s.auto_execute_counts[s.owner[c]],
     progress |-> s.request_progress[s.owner[c]]]

\* ------------------------------------------------------------ environment
MixedEnv ==
    [calls |-> MixedCalls, events |-> MixedEvents, chats |-> MixedEvents,
     cancels |-> MixedEvents, submits |-> 0, starts |-> 0, resumes |-> 0,
     errs |-> 0,
     batch |-> MixedBatch, quiet |-> FALSE]

ManualEnv ==
    [calls |-> ManualCalls, events |-> ManualEvents, chats |-> ManualEvents,
     cancels |-> ManualEvents, submits |-> ManualEvents,
     starts |-> ManualEvents,
     resumes |-> ManualEvents, errs |-> ManualEvents,
     batch |-> ManualBatch, quiet |-> TRUE]

LongEnv ==
    [calls |-> LongCalls, events |-> LongChats + LongCancels + LongResumes,
     chats |-> LongChats, cancels |-> LongCancels,
     submits |-> 0, starts |-> 0, resumes |-> LongResumes, errs |-> 0,
     batch |-> 1, quiet |-> TRUE]

LiveEnv ==
    [calls |-> LiveCalls, events |-> LiveEvents, chats |-> LiveEvents,
     cancels |-> LiveEvents, submits |-> LiveEvents, starts |-> LiveEvents,
     resumes |-> LiveEvents, errs |-> LiveEvents,
     batch |-> 1, quiet |-> TRUE]

PauseEnv ==
    [calls |-> PauseCalls, events |-> PauseEvents, chats |-> 1,
     cancels |-> 1, submits |-> 1, starts |-> 1, resumes |-> 1, errs |-> 1,
     batch |-> 1, quiet |-> TRUE]

\* the largest batch any workload allows
MaxBatch == IF MixedBatch > ManualBatch THEN MixedBatch ELSE ManualBatch

Slots == 1..MaxTasks

\* A frame of process_tool_calls_and_continue: its position, tool_calls,
\* loop index, tool_results, the local `history` (alias = it is still the
\* list object stored in conversations, else hist holds the detached object),
\* auto_execute_tools, the timestamps inside tool_start_id and
\* placeholder_msg_id, the tool_use ids of the response, and the length of
\* the history when the frame was entered.
IdleTask ==
    [pc |-> "idle", calls |-> <<>>, i |-> 0, results |-> <<>>,
     alias |-> FALSE, hist |-> <<>>, auto |-> FALSE,
     ets |-> 0, pts |-> 0, reply |-> <<>>, len0 |-> 0]

\* background_tasks.add_task(process_tool_calls_and_continue, tool_calls, ...)
QueuedTask(ids, auto) ==
    [IdleTask EXCEPT !.pc = "queued", !.calls = ids, !.auto = auto]

FreeSlots == {t \in Slots : tasks[t].pc = "idle"}

FirstFree == CHOOSE t \in FreeSlots : \A u \in FreeSlots : t <= u

LiveTasks == {t \in Slots : tasks[t].pc # "idle"}

Quiescent == LiveTasks = {} /\ chat.pc = "idle"

MayAct == env.quiet => Quiescent

\* `conversations[cid] = [...]` stores a new list object: every frame whose
\* local `history` was the old object keeps the old contents from now on.
Detach(tk, old) ==
    [t \in Slots |->
        IF tk[t].alias THEN [tk[t] EXCEPT !.alias = FALSE, !.hist = old]
        ELSE tk[t]]

\* the list the local `history` of frame f denotes, given the stored list
LocalHistory(f, stored) == IF f.alias THEN stored ELSE f.hist

\* int(datetime.datetime.now().timestamp()): equal to the timestamp of an id
\* made in the same second, else a new value
SmallestUnused(c) ==
    CHOOSE n \in 0..Cardinality(c) : n \notin c /\ \A k \in 0..(n - 1) : k \in c

ExecTimestamps(h, id) ==
    LET c == {h[k].ts : k \in {j \in 1..Len(h) :
                  h[j].kind = "executing" /\ h[j].ref = id}}
    IN c \cup {SmallestUnused(c)}

PlaceholderTimestamps(h) ==
    LET c == {h[k].ts : k \in {j \in 1..Len(h) : h[j].ph}}
    IN c \cup {SmallestUnused(c)}

\* conversation.py:139-146  reset_auto_execute_count
ResetCount(c) == 0

\* routes: `except Exception as e: raise HTTPException(status_code=500, ...)`
\* also catches the HTTPException raised inside the try block
RouteError(code) == 500

Step(op, code, t) == [op |-> op, code |-> code, task |-> t]

NoRequest == [src |-> "none", task |-> 0, msgs |-> <<>>, sys |-> <<>>]

InitBase(envs) ==
    /\ exists = FALSE
    /\ history = <<>>
    /\ taskStatus = "none"
    /\ autoCount = 0
    /\ progress = Snapshot("none", "none", 0)
    /\ tasks = [t \in Slots |-> IdleTask]
    /\ chat = [pc |-> "idle", auto |-> FALSE]
    /\ sent = NoRequest
    /\ nextId = 0
    /\ last = Step("init", 0, 0)
    /\ cancelReq = {}
    /\ env \in envs
    /\ tracker = TrackerIdle
    /\ store = StoreEmpty

\* no pure function is under examination
NotApplied == [fn |-> "none"]

InitWith(envs) == InitBase(envs) /\ applied = NotApplied

Init == InitWith({MixedEnv, ManualEnv, LongEnv})

\* update_progress(conversation_id, status, step, message, pct)
UpdateProgress(status, step, pct) ==
    /\ progress' = Snapshot(status, step, pct)
    /\ taskStatus' = StatusAfterUpdate(taskStatus, status)


\* ------------------------------------------------------------------ routes
\* chat.py:47-106  POST /api/chat up to the upstream call
ChatStart(auto) ==
    /\ chat.pc = "idle" /\ MayAct
    /\ env.events > 0 /\ env.chats > 0 /\ env.calls > 0
    /\ UpdateProgress("waiting_for_claude", "api_request", 10)
    /\ chat' = [pc |-> "waiting", auto |-> auto]
    /\ sent' = [NoRequest EXCEPT !.src = "chat"]
    /\ env' = [env EXCEPT !.events = @ - 1, !.chats = @ - 1, !.calls = @ - 1]
    /\ cancelReq' = {}
    /\ last' = Step("chat_start", 0, 0)
    /\ UNCHANGED <<exists, history, autoCount, tasks, nextId, tracker, store, applied>>

\* chat.py:121-253  the response arrives; n = number of tool_use blocks
ChatReply(n) ==
    /\ chat.pc = "waiting"
    /\ n \in ReplySizes(env.batch)
    /\ (chat.auto /\ n > 0) => FreeSlots # {}
    /\ UpdateProgress("processing_response", "parsing_response", 50)
    /\ exists' = TRUE
    /\ LET ids == Ids(n, nextId)
           h1 == history \o <<UserText, AssistantMsg(ids)>>
       IN IF chat.auto /\ n > 0
          THEN /\ history' = Append(h1, StartStatusMsg)
               /\ tasks' = [tasks EXCEPT ![FirstFree] = QueuedTask(ids, TRUE)]
          ELSE /\ history' = h1
               /\ tasks' = tasks
    /\ nextId' = nextId + n
    /\ chat' = [pc |-> "idle", auto |-> FALSE]
    /\ last' = Step("chat", 200, 0)
    /\ UNCHANGED <<autoCount, sent, cancelReq, env, tracker, store, applied>>

\* chat.py:255-257  the upstream call raises
ChatFail ==
    /\ chat.pc = "waiting"
    /\ env.events > 0 /\ env.errs > 0
    /\ chat' = [pc |-> "idle", auto |-> FALSE]
    /\ env' = [env EXCEPT !.events = @ - 1, !.errs = @ - 1]
    /\ last' = Step("chat", RouteError(500), 0)
    /\ UNCHANGED <<exists, history, taskStatus, autoCount, progress, tasks,
                   sent, nextId, cancelReq, tracker, store, applied>>

\* the tool_use ids a client holds: those of the last assistant message
PendingIds(h) ==
    LET a == {k \in 1..Len(h) : h[k].role = "assistant" /\ ~h[k].ph}
    IN IF a = {} THEN {}
       ELSE SeqToSet(h[CHOOSE k \in a : \A j \in a : j <= k].uses)

\* chat.py:259-386  POST /api/tool-results (the upstream call is synchronous)
SubmitToolResults(n, auto, ok) ==
    /\ MayAct
    /\ env.events > 0 /\ env.submits > 0 /\ env.calls > 0
    /\ exists
    /\ n \in ReplySizes(env.batch)
    /\ ok \/ (env.errs > 0 /\ env.events > 1 /\ n = 0 /\ auto)
    /\ (ok /\ auto /\ n > 0) => FreeSlots # {}
    /\ \E id \in PendingIds(history) :
       LET h1 == Append(history, ResultsMsg(<<[id |-> id, out |-> "ok"]>>))
           ids == Ids(n, nextId)
       IN /\ sent' = [src |-> "submit", task |-> 0, msgs |-> h1, sys |-> <<>>]
          /\ IF ok
             THEN /\ history' = Append(h1, AssistantMsg(ids))
                  /\ tasks' = IF auto /\ n > 0
                              THEN [tasks EXCEPT ![FirstFree] = QueuedTask(ids, auto)]
                              ELSE tasks
                  /\ nextId' = nextId + n
                  /\ last' = Step("submit", 200, 0)
                  /\ env' = [env EXCEPT !.events = @ - 1, !.submits = @ - 1,
                                        !.calls = @ - 1]
             ELSE /\ history' = h1
                  /\ tasks' = tasks
                  /\ nextId' = nextId
                  /\ last' = Step("submit", RouteError(500), 0)
                  /\ env' = [env EXCEPT !.events = @ - 2, !.submits = @ - 1,
                                        !.calls = @ - 1, !.errs = @ - 1]
    /\ UNCHANGED <<exists, taskStatus, autoCount, progress, chat, cancelReq, tracker, store, applied>>

\* tests/test_auto_execute.py:161-194  the engine entered directly with
\* auto_execute_tools = False, for the tool calls the client holds
StartCycle ==
    /\ MayAct
    /\ env.events > 0 /\ env.starts > 0
    /\ exists /\ FreeSlots # {}
    /\ PendingIds(history) # {}
    /\ LET a == {k \in 1..Len(history) :
                   history[k].role = "assistant" /\ ~history[k].ph}
           ids == history[CHOOSE k \in a : \A j \in a : j <= k].uses
       IN tasks' = [tasks EXCEPT ![FirstFree] = QueuedTask(ids, FALSE)]
    /\ env' = [env EXCEPT !.events = @ - 1, !.starts = @ - 1]
    /\ last' = Step("start", 0, 0)
    /\ UNCHANGED <<exists, history, taskStatus, autoCount, progress, chat,
                   sent, nextId, cancelReq, tracker, store, applied>>

\* the tool_use ids of recent_messages[-1] (any message of role assistant)
LastAssistantUses(h) ==
    LET a == {k \in 1..Len(h) : h[k].role = "assistant"}
    IN h[CHOOSE k \in a : \A j \in a : j <= k].uses

\* conversation.py (routes):152-235  POST .../resume
Resume ==
    /\ MayAct
    /\ env.events > 0 /\ env.resumes > 0
    /\ env' = [env EXCEPT !.events = @ - 1, !.resumes = @ - 1]
    /\ IF ~exists
       THEN /\ last' = Step("resume", RouteError(404), 0)
            /\ UNCHANGED <<history, taskStatus, progress, autoCount, tasks, cancelReq>>
       ELSE IF taskStatus # "paused"
       THEN /\ last' = Step("resume", RouteError(400), 0)
            /\ UNCHANGED <<history, taskStatus, progress, autoCount, tasks, cancelReq>>
       ELSE LET h1 == Append(history, SystemNote("resumed"))
            IN /\ FreeSlots # {}
               /\ UpdateProgress("resuming", "resuming_execution", 85)
               /\ autoCount' = ResetCount(autoCount)
               /\ history' = h1
               /\ cancelReq' = {}
               /\ IF \A k \in 1..Len(h1) : h1[k].role # "assistant"
                  THEN /\ last' = Step("resume", RouteError(400), 0)
                       /\ tasks' = tasks
                  ELSE IF LastAssistantUses(h1) = <<>>
                  THEN /\ last' = Step("resume", RouteError(400), 0)
                       /\ tasks' = tasks
                  ELSE /\ last' = Step("resume", 200, 0)
                       /\ tasks' = [tasks EXCEPT ![FirstFree] =
                                        QueuedTask(LastAssistantUses(h1), TRUE)]
    /\ UNCHANGED <<exists, chat, sent, nextId, tracker, store, applied>>

\* conversation.py (routes):237-264 and chat.py:395-423  POST .../cancel
Cancel ==
    /\ MayAct
    /\ env.events > 0 /\ env.cancels > 0
    /\ env' = [env EXCEPT !.events = @ - 1, !.cancels = @ - 1]
    /\ IF ~exists
       THEN /\ last' = Step("cancel", RouteError(404), 0)
            /\ UNCHANGED <<taskStatus, history, cancelReq>>
       ELSE /\ taskStatus' = "cancelled"
            /\ history' = Append(history, SystemNote("cancelled"))
            /\ cancelReq' = LiveTasks
            /\ last' = Step("cancel", 200, 0)
    /\ UNCHANGED <<exists, autoCount, progress, tasks, chat, sent, nextId, tracker, store, applied>>


\* ------------------------------------------- process_tool_calls_and_continue
FinalStatusErrorOpen(st) ==
    IF st \in Terminal \ {"error"} THEN st ELSE StatusAfterUpdate(st, "completed")

\* tool_execution.py:533-543  the finally block: a terminal status is left
\* alone, any other one is overwritten by a last update_progress("completed")
FinalStatus(st) ==
    IF st \in Terminal THEN st ELSE StatusAfterUpdate(st, "completed")

FinalProgress(st, pg) ==
    IF st \in Terminal THEN pg
    ELSE Snapshot("completed", "execution_complete", 100)

IsCancelledNever(st) == FALSE

\* tool_execution.py:102, 188, 232, 421  the cancellation checkpoint
IsCancelled(st) == st = "cancelled"

\* what a tool call does once dispatched: the tool succeeds, the result has
\* status error because the tool reports a failure, the name is no known
\* tool, or the implementation throws
ToolKinds == {"ok", "fail", "unknown", "raise"}

\* tool_wrapper.py:345-421  the result appended for one call: the tool's own
\* result, the "Unknown tool" result (384), or the result built by the
\* except branch (401-421)
ToolResult(call) ==
    IF call.kind = "raise" THEN [id |-> call.id, out |-> "error"]
    ELSE IF call.kind = "unknown" THEN [id |-> call.id, out |-> "error"]
    ELSE IF call.kind = "fail" THEN [id |-> call.id, out |-> "error"]
    ELSE [id |-> call.id, out |-> "ok"]

RECURSIVE ProcessToolCallsSkipRaise(_)
ProcessToolCallsSkipRaise(calls) ==
    IF calls = <<>> THEN <<>>
    ELSE IF Head(calls).kind = "raise"
         THEN ProcessToolCallsSkipRaise(Tail(calls))
         ELSE <<ToolResult(Head(calls))>> \o ProcessToolCallsSkipRaise(Tail(calls))

\* tool_wrapper.py:333-423  process_tool_calls
RECURSIVE ProcessToolCalls(_)
ProcessToolCalls(calls) ==
    IF calls = <<>> THEN <<>>
    ELSE <<ToolResult(Head(calls))>> \o ProcessToolCalls(Tail(calls))

\* tool_execution.py:30-64  auto_execute_tool_calls
AutoExecuteToolCalls(calls) == ProcessToolCalls(calls)

DispatchTwice(id, kind) ==
    AutoExecuteToolCalls(<<[id |-> id, kind |-> kind], [id |-> id, kind |-> kind]>>)

\* tool_execution.py:136  auto_execute_tool_calls([tool_call], ...)
Dispatch(id, kind) == AutoExecuteToolCalls(<<[id |-> id, kind |-> kind]>>)

\* tool_wrapper.py:674-706  one tool_result block per result that has a
\* tool_use_id and a content
FormatToolResults(results) ==
    SelectSeq(results, LAMBDA r : r.id # 0 /\ r.out # "")

\* tool_execution.py:253-346  what is handed to client.messages.create,
\* computed from the local `history`
BuildRequest(t, loc) ==
    [src |-> "cycle", task |-> t,
     msgs |-> Repair(ApiMessages(loc)), sys |-> SystemMessages(loc)]

IncrementCountTwice(c) == c + 2

\* conversation.py:123-137  increment_auto_execute_count
IncrementCount(c) == c + 1

OverLimitAtCeiling(c) == c >= AutoExecuteLimit

\* tool_execution.py:462  the limit test
OverLimit(c) == c > AutoExecuteLimit

\* tool_execution.py:106-133  a frame that passed the entry checks: local
\* `history`, progress 25, "Executing tool" message of the first call, up to
\* the await of its dispatch
RunningFrame(ids, auto, ts, n0) ==
    [IdleTask EXCEPT !.pc = "tool", !.calls = ids, !.i = 1, !.alias = TRUE,
                     !.auto = auto, !.ets = ts, !.len0 = n0]

\* tool_execution.py:87-136  a scheduled cycle starts
CycleBegin(t) ==
    /\ tasks[t].pc = "queued"
    /\ LET f == tasks[t]
           st0 == IF taskStatus = "none" THEN "running" ELSE taskStatus
       IN IF IsCancelled(st0)
          THEN /\ taskStatus' = FinalStatus(st0)
               /\ progress' = FinalProgress(st0, progress)
               /\ history' = history
               /\ tasks' = [tasks EXCEPT ![t] = IdleTask]
               /\ cancelReq' = cancelReq \ {t}
               /\ last' = Step("halt_entry", 0, t)
          ELSE /\ taskStatus' = StatusAfterUpdate(st0, "executing_tool")
               /\ progress' = Snapshot("executing_tool", "tool_execution", 25)
               /\ \E ts \in ExecTimestamps(history, f.calls[1]) :
                     /\ history' = Append(history, ExecStatusMsg(f.calls[1], ts))
                     /\ tasks' = [tasks EXCEPT ![t] = RunningFrame(f.calls, f.auto, ts, Len(history))]
               /\ cancelReq' = cancelReq
               /\ last' = Step("begin", 0, t)
    /\ UNCHANGED <<exists, autoCount, chat, sent, nextId, env, tracker, store, applied>>

\* tool_execution.py:136-358  the dispatched tool returns: its result, the
\* status messages and progress; then the next tool, or (after the last one)
\* checkpoint, bundled results, progress 50, checkpoint, placeholder, request
CycleTool(t, out) ==
    /\ tasks[t].pc = "tool"
    /\ out \in ToolKinds
    /\ out # "ok" => (env.errs > 0 /\ env.events > 0)
    /\ LET f == Detach(tasks, history)[t]
           n == Len(f.calls)
           id == f.calls[f.i]
           res == f.results \o Dispatch(id, out)
           h1 == Append(RemoveExecMsg(history, id, f.ets), DoneStatusMsg(id))
           st1 == StatusAfterUpdate(taskStatus, "executing_tool")
           pg1 == Snapshot("executing_tool", "tool_i_of_n", ToolPct(f.i, n))
           h2 == Append(StripTemporary(h1), ResultsMsg(FormatToolResults(res)))
           st2 == StatusAfterUpdate(st1, "waiting_for_claude")
           pg2 == Snapshot("waiting_for_claude", "waiting_for_response", 50)
           e1 == IF out # "ok"
                 THEN [env EXCEPT !.events = @ - 1, !.errs = @ - 1] ELSE env
       IN IF f.i < n
          THEN /\ \E ts \in ExecTimestamps(h1, f.calls[f.i + 1]) :
                     /\ history' = Append(h1, ExecStatusMsg(f.calls[f.i + 1], ts))
                     /\ tasks' = [Detach(tasks, history) EXCEPT ![t] =
                                     [f EXCEPT !.i = f.i + 1, !.results = res,
                                               !.ets = ts]]
               /\ taskStatus' = st1
               /\ progress' = pg1
               /\ sent' = sent
               /\ env' = e1
               /\ cancelReq' = cancelReq
               /\ last' = Step("next_tool", 0, t)
          ELSE IF IsCancelled(st1)
          THEN /\ history' = h1
               /\ tasks' = [Detach(tasks, history) EXCEPT ![t] = IdleTask]
               /\ taskStatus' = FinalStatus(st1)
               /\ progress' = FinalProgress(st1, pg1)
               /\ sent' = sent
               /\ env' = e1
               /\ cancelReq' = cancelReq \ {t}
               /\ last' = Step("halt_tools", 0, t)
          ELSE IF IsCancelled(st2)
          THEN /\ history' = h2
               /\ tasks' = [Detach(tasks, history) EXCEPT ![t] = IdleTask]
               /\ taskStatus' = FinalStatus(st2)
               /\ progress' = FinalProgress(st2, pg2)
               /\ sent' = sent
               /\ env' = e1
               /\ cancelReq' = cancelReq \ {t}
               /\ last' = Step("halt_call", 0, t)
          ELSE /\ env.calls > 0
               /\ \E ts \in PlaceholderTimestamps(h2) :
                     /\ history' = Append(h2, PlaceholderMsg(ts))
                     /\ tasks' = [Detach(tasks, history) EXCEPT ![t] =
                                     [f EXCEPT !.pc = "api", !.results = res,
                                               !.pts = ts]]
               /\ sent' = BuildRequest(t, LocalHistory(f, history))
               /\ taskStatus' = st2
               /\ progress' = pg2
               /\ env' = [e1 EXCEPT !.calls = @ - 1]
               /\ cancelReq' = cancelReq
               /\ last' = Step("upstream", 0, t)
    /\ UNCHANGED <<exists, autoCount, chat, nextId, tracker, store, applied>>

\* tool_execution.py:349-543  the response arrives: placeholder removed,
\* progress 75, reply appended, checkpoint; then completed, manual mode,
\* pause at the limit, or the recursive call up to its first dispatch
CycleReply(t, n) ==
    /\ tasks[t].pc = "api"
    /\ n \in ReplySizes(env.batch)
    /\ LET f == tasks[t]
           ids == Ids(n, nextId)
           others == Detach(tasks, history)
           h1 == Append(RemovePlaceholder(history, f.pts), AssistantMsg(ids))
           st1 == StatusAfterUpdate(taskStatus, "processing_response")
           pg1 == Snapshot("processing_response", "processing_claude_response", 75)
           st2 == StatusAfterUpdate(st1, "completed")
           pg2 == Snapshot("completed", "conversation_complete", 100)
           st3 == StatusAfterUpdate(st1, "preparing_tool_execution")
           pg3 == Snapshot("preparing_tool_execution", "new_tool_calls", 80)
           cnt == IncrementCount(autoCount)
           st4 == StatusAfterUpdate(st3, "paused")
           pg4 == Snapshot("paused", "auto_execution_limit", 90)
       IN /\ nextId' = nextId + n
          /\ IF IsCancelled(st1)
             THEN /\ history' = h1
                  /\ tasks' = [others EXCEPT ![t] = IdleTask]
                  /\ taskStatus' = FinalStatus(st1)
                  /\ progress' = FinalProgress(st1, pg1)
                  /\ autoCount' = autoCount
                  /\ cancelReq' = cancelReq \ {t}
                  /\ last' = Step("halt_reply", 0, t)
             ELSE IF n = 0
             THEN /\ history' = h1
                  /\ tasks' = [others EXCEPT ![t] = IdleTask]
                  /\ taskStatus' = FinalStatus(st2)
                  /\ progress' = FinalProgress(st2, pg2)
                  /\ autoCount' = autoCount
                  /\ cancelReq' = cancelReq \ {t}
                  /\ last' = Step("complete", 0, t)
             ELSE IF ~f.auto
             THEN /\ history' = h1
                  /\ tasks' = [others EXCEPT ![t] = IdleTask]
                  /\ taskStatus' = FinalStatus(st3)
                  /\ progress' = FinalProgress(st3, pg3)
                  /\ autoCount' = autoCount
                  /\ cancelReq' = cancelReq \ {t}
                  /\ last' = Step("manual", 0, t)
             ELSE IF OverLimit(cnt)
             THEN /\ history' = Append(h1, SystemNote("limit"))
                  /\ tasks' = [others EXCEPT ![t] = IdleTask]
                  /\ taskStatus' = FinalStatus(st4)
                  /\ progress' = FinalProgress(st4, pg4)
                  /\ autoCount' = cnt
                  /\ cancelReq' = cancelReq \ {t}
                  /\ last' = Step("pause", 0, t)
             ELSE IF IsCancelled(st3)
             THEN /\ history' = h1
                  /\ tasks' = [others EXCEPT ![t] = IdleTask]
                  /\ taskStatus' = FinalStatus(st3)
                  /\ progress' = FinalProgress(st3, pg3)
                  /\ autoCount' = cnt
                  /\ cancelReq' = cancelReq \ {t}
                  /\ last' = Step("halt_entry", 0, t)
             ELSE /\ \E ts \in ExecTimestamps(h1, ids[1]) :
                        /\ history' = Append(h1, ExecStatusMsg(ids[1], ts))
                        /\ tasks' = [others EXCEPT ![t] =
                                        RunningFrame(ids, f.auto, ts, Len(h1))]
                  /\ taskStatus' = StatusAfterUpdate(st3, "executing_tool")
                  /\ progress' = Snapshot("executing_tool", "tool_execution", 25)
                  /\ autoCount' = cnt
                  /\ cancelReq' = cancelReq
                  /\ last' = Step("recurse", 0, t)
    /\ UNCHANGED <<exists, chat, sent, env, tracker, store, applied>>

CycleApiFailSilent(t) ==
    /\ tasks[t].pc = "api"
    /\ env.events > 0 /\ env.errs > 0
    /\ tasks' = [tasks EXCEPT ![t] = IdleTask]
    /\ env' = [env EXCEPT !.events = @ - 1, !.errs = @ - 1]
    /\ cancelReq' = cancelReq \ {t}
    /\ last' = Step("api_error", 0, t)
    /\ UNCHANGED <<exists, history, taskStatus, progress, autoCount, chat,
                   sent, nextId, tracker, store, applied>>

\* tool_execution.py:376-393 (and 533-543)  the upstream call raises
CycleApiFail(t) ==
    /\ tasks[t].pc = "api"
    /\ env.events > 0 /\ env.errs > 0
    /\ LET st == StatusAfterUpdate(taskStatus, "error")
       IN /\ history' = Append(history, SystemNote("api_error"))
          /\ taskStatus' = FinalStatus(st)
          /\ progress' = FinalProgress(st, Snapshot("error", "api_call_error", 0))
    /\ tasks' = [tasks EXCEPT ![t] = IdleTask]
    /\ env' = [env EXCEPT !.events = @ - 1, !.errs = @ - 1]
    /\ cancelReq' = cancelReq \ {t}
    /\ last' = Step("api_error", 0, t)
    /\ UNCHANGED <<exists, autoCount, chat, sent, nextId, tracker, store, applied>>

\* tool_execution.py:122-185 (and 533-543)  an exception inside the tool
\* loop once the dispatch has returned: error message, progress error, return
CycleToolRaise(t) ==
    /\ tasks[t].pc = "tool"
    /\ env.events > 0 /\ env.errs > 0
    /\ LET st == StatusAfterUpdate(taskStatus, "error")
       IN /\ history' = Append(history, SystemNote("tool_error"))
          /\ taskStatus' = FinalStatus(st)
          /\ progress' = FinalProgress(st, Snapshot("error", "tool_execution_error", 0))
    /\ tasks' = [tasks EXCEPT ![t] = IdleTask]
    /\ env' = [env EXCEPT !.events = @ - 1, !.errs = @ - 1]
    /\ cancelReq' = cancelReq \ {t}
    /\ last' = Step("tool_raise", 0, t)
    /\ UNCHANGED <<exists, autoCount, chat, sent, nextId, tracker, store, applied>>

\* tool_execution.py:361-368, 395-511 (and 533-543)  the response arrives
\* (placeholder removed, progress 75) and processing it raises before the
\* reply is stored: error message, progress error
CycleReplyRaise(t) ==
    /\ tasks[t].pc = "api"
    /\ env.events > 0 /\ env.errs > 0
    /\ LET f == tasks[t]
           st1 == StatusAfterUpdate(taskStatus, "processing_response")
           st == StatusAfterUpdate(st1, "error")
       IN /\ history' = Append(RemovePlaceholder(history, f.pts),
                               SystemNote("reply_error"))
          /\ taskStatus' = FinalStatus(st)
          /\ progress' = FinalProgress(st, Snapshot("error", "processing_response_error", 0))
    /\ tasks' = [Detach(tasks, history) EXCEPT ![t] = IdleTask]
    /\ env' = [env EXCEPT !.events = @ - 1, !.errs = @ - 1]
    /\ cancelReq' = cancelReq \ {t}
    /\ last' = Step("reply_raise", 0, t)
    /\ UNCHANGED <<exists, autoCount, chat, sent, nextId, tracker, store, applied>>

Next ==
    \/ \E auto \in BOOLEAN : ChatStart(auto)
    \/ \E n \in 0..MaxBatch : ChatReply(n)
    \/ ChatFail
    \/ \E n \in 0..MaxBatch, auto \in BOOLEAN, ok \in BOOLEAN :
          SubmitToolResults(n, auto, ok)
    \/ StartCycle
    \/ Resume
    \/ Cancel
    \/ \E t \in Slots : CycleBegin(t)
    \/ \E t \in Slots, out \in ToolKinds : CycleTool(t, out)
    \/ \E t \in Slots, n \in 0..MaxBatch : CycleReply(t, n)
    \/ \E t \in Slots : CycleApiFail(t)
    \/ \E t \in Slots : CycleToolRaise(t)
    \/ \E t \in Slots : CycleReplyRaise(t)

Spec == Init /\ [][Next]_vars


\* ================================================================ properties
\* the step just taken was taken by cycle t
StepOf(t) == last'.task = t

\* cycle t is suspended right before a block that passes a cancellation
\* checkpoint (entry; after the last tool of the batch; after the reply)
BeforeCheckpoint(t) ==
    \/ tasks[t].pc = "queued"
    \/ tasks[t].pc = "tool" /\ tasks[t].i = Len(tasks[t].calls)
    \/ tasks[t].pc = "api"

\* C1: a cancel requested while a cycle is live halts that cycle at the next
\* checkpoint it reaches: from there it dispatches no tool, calls upstream no
\* more, and the status is still cancelled when it returns.
C1_CancelHaltsCycle ==
    [][\A t \in cancelReq :
          (StepOf(t) /\ BeforeCheckpoint(t) /\ last'.op # "api_error")
             => /\ tasks'[t].pc = "idle"
                /\ taskStatus' = "cancelled"
                /\ sent' = sent]_vars

\* C2: a cycle entered while the status is cancelled stops at once and
\* changes nothing: no dispatch, no upstream call, same history, same
\* counter, same progress, status still cancelled.
C2_CancelledAtEntry ==
    [][\A t \in Slots :
          (StepOf(t) /\ tasks[t].pc = "queued" /\ taskStatus = "cancelled")
             => /\ tasks'[t] = IdleTask
                /\ history' = history
                /\ sent' = sent
                /\ autoCount' = autoCount
                /\ progress' = progress
                /\ taskStatus' = "cancelled"]_vars

C2_Witness ==
    /\ last.op = "halt_entry"
    /\ taskStatus = "cancelled"
    /\ history[Len(history)].kind = "cancelled"

\* C3: the counter is exactly 11 whenever the status is paused, and it never
\* exceeds 11.
C3_CountBounded ==
    /\ taskStatus = "paused" => autoCount = AutoExecuteLimit + 1
    /\ autoCount <= AutoExecuteLimit + 1

\* C4: with auto-execution on, the replies that find the counter below 10
\* are followed by the dispatch of their first tool, and the reply that finds
\* it at 10 (the 11th in a row) ends the cycle paused, with the confirmation
\* request as last message, nothing dispatched and no upstream call; while
\* paused no cycle that has started takes a step (only a cycle scheduled by
\* a later request can start).
C4_ScenarioD ==
    [][/\ \A t \in Slots :
            (StepOf(t) /\ tasks[t].pc = "api" /\ tasks[t].auto
                 /\ last'.op \in {"recurse", "pause"})
               => IF autoCount < AutoExecuteLimit
                  THEN /\ tasks'[t].pc = "tool"
                       /\ taskStatus' # "paused"
                       /\ autoCount' = autoCount + 1
                  ELSE /\ autoCount = AutoExecuteLimit
                          => autoCount' = AutoExecuteLimit + 1
                       /\ taskStatus' = "paused"
                       /\ history'[Len(history')].kind = "limit"
                       /\ tasks'[t] = IdleTask
                       /\ sent' = sent
       /\ \A t \in Slots :
            (taskStatus = "paused" /\ StepOf(t)) => tasks[t].pc = "queued"]_vars

C4_Witness ==
    /\ last.op = "pause"
    /\ autoCount = AutoExecuteLimit + 1
    /\ taskStatus = "paused"
    /\ history[Len(history)].kind = "limit"
    /\ LiveTasks = {}

\* C5: right after a successful resume the counter is 0 and the status is
\* running.
C5_ResumeResets ==
    (last.op = "resume" /\ last.code = 200)
       => (autoCount = 0 /\ taskStatus = "running")

\* C6: a resume of an existing conversation whose status is not paused is
\* answered with a client error (4xx) and starts no cycle.
C6_ResumeRejected ==
    [][(last'.op = "resume" /\ exists /\ taskStatus # "paused")
          => (last'.code \in 400..499 /\ tasks' = tasks)]_vars

\* C7: a second cancel right after a cancel, and a cancel of a completed
\* conversation, change nothing a caller can observe (status, the history
\* the messages endpoint returns, progress).
C7_CancelIdempotent ==
    [][(/\ last'.op = "cancel" /\ last'.code = 200
        /\ \/ (last.op = "cancel" /\ last.code = 200)
           \/ taskStatus = "completed")
          => /\ taskStatus' = taskStatus
             /\ DisplayHistory(history') = DisplayHistory(history)
             /\ progress' = progress]_vars

\* every tool_use message is directly followed by a user message holding a
\* tool_result for each of its ids
Paired(msgs) ==
    \A i \in 1..Len(msgs) :
        IsToolUse(msgs[i])
           => /\ i < Len(msgs)
              /\ msgs[i + 1].role = "user"
              /\ SeqToSet(msgs[i].uses) \subseteq ResIds(msgs[i + 1])

\* C8: the message list a cycle submits upstream satisfies the pairing rule
\* for every invocation id.
C8_PairingInvariant == sent.src = "cycle" => Paired(sent.msgs)

\* C9: the request of a cycle holds, right after the assistant message that
\* asked for the batch, the user message with the results the batch produced.
C9_ResultsSent ==
    \A t \in Slots :
        (tasks[t].pc = "api" /\ sent.src = "cycle" /\ sent.task = t)
           => \E i \in 1..(Len(sent.msgs) - 1) :
                 /\ sent.msgs[i].role = "assistant"
                 /\ sent.msgs[i].uses = tasks[t].calls
                 /\ sent.msgs[i + 1].role = "user"
                 /\ sent.msgs[i + 1].res = FormatToolResults(tasks[t].results)

\* positions of the stored messages that carry neither flag
Shown(h) == {k \in 1..Len(h) : ~h[k].ph /\ ~h[k].tmp}

\* C10: the messages endpoint returns no placeholder and no temporary
\* message, and returns all the other messages in their stored order.
C10_DisplayFiltered ==
    LET d == DisplayHistory(history)
        u == Shown(history)
    IN /\ \A k \in 1..Len(d) : ~d[k].ph /\ ~d[k].tmp
       /\ Len(d) = Cardinality(u)
       /\ \A i \in u : d[Cardinality({j \in u : j <= i})] = history[i]

C10_Witness ==
    /\ \E k \in 1..Len(history) : history[k].ph
    /\ \E k \in 1..Len(history) : history[k].tmp
    /\ Len(DisplayHistory(history)) + 2 <= Len(history)

\* C11: a failed upstream call ends the cycle: the status is error, the error
\* message is the last message of the history, the call is not repeated, no
\* tool is dispatched, and the bundled tool results stay in the history.
C11_UpstreamFailure ==
    [][\A t \in Slots :
          (StepOf(t) /\ last'.op = "api_error")
             => /\ taskStatus' = "error"
                /\ history'[Len(history')].kind = "api_error"
                /\ tasks'[t] = IdleTask
                /\ sent' = sent
                /\ \E k \in 1..Len(history') :
                      history'[k] = ResultsMsg(FormatToolResults(tasks[t].results))]_vars

C11_Witness ==
    /\ last.op = "api_error"
    /\ taskStatus = "error"
    /\ \E k \in 1..Len(history) : history[k].kind = "results"

\* C12: with one request at a time, a cycle entered with a single tool call
\* whose reply holds no tool call ends with status completed and a history
\* exactly two messages longer than at its entry.
C12_ScenarioA ==
    [][\A t \in Slots :
          (StepOf(t) /\ last'.op = "complete" /\ env.quiet
               /\ Len(tasks[t].calls) = 1)
             => /\ taskStatus' = "completed"
                /\ Len(history') = tasks[t].len0 + 2]_vars

\* C13: a cycle run with auto-execution off whose reply holds tool calls
\* dispatches none of them, leaves the counter alone, and does not set the
\* status to completed.
C13_ManualMode ==
    [][\A t \in Slots :
          (StepOf(t) /\ last'.op = "manual")
             => /\ tasks'[t] = IdleTask
                /\ autoCount' = autoCount
                /\ taskStatus' # "completed"]_vars

\* C14: dispatch returns one result per tool call, in the order of the
\* calls, each with the id of its call, and with status error for an unknown
\* name or a throwing tool: for the results a cycle has collected so far, and
\* for its whole batch under every mix of tool behaviours.
C14_DispatchTotal ==
    \A t \in LiveTasks :
        LET f == tasks[t]
            n == Len(f.calls)
        IN /\ f.pc = "tool" => Len(f.results) = f.i - 1
           /\ f.pc = "api" => Len(f.results) = n
           /\ \A k \in 1..Len(f.results) : f.results[k].id = f.calls[k]
           /\ \A ks \in [1..n -> ToolKinds] :
                 LET b == [k \in 1..n |-> [id |-> f.calls[k], kind |-> ks[k]]]
                     r == AutoExecuteToolCalls(b)
                 IN /\ Len(r) = n
                    /\ \A k \in 1..n :
                          /\ r[k].id = b[k].id
                          /\ ks[k] \in {"unknown", "raise"} => r[k].out = "error"

C14_Witness ==
    \E t \in Slots :
        /\ tasks[t].pc = "api"
        /\ Len(tasks[t].results) = 2
        /\ \E k \in 1..2 : tasks[t].results[k].out = "error"

\* some result of the list reports an error
HasError(results) == \E k \in 1..Len(results) : results[k].out = "error"

\* C15: after a failed tool call the cycle goes on with the next call of the
\* batch, and after the last call it calls upstream with a request that
\* holds the bundled results, the error result included.
C15_FailureContinues ==
    [][\A t \in Slots :
          (StepOf(t) /\ tasks[t].pc = "tool")
             => /\ HasError(tasks[t].results)
                      => last'.op \in {"next_tool", "upstream"}
                /\ (last'.op = "upstream" /\ HasError(tasks'[t].results))
                      => \E k \in 1..Len(sent'.msgs) :
                            sent'.msgs[k].res = FormatToolResults(tasks'[t].results)]_vars

\* C16: an exception inside a cycle (in the tool loop, or while the response
\* is processed) ends the cycle: it returns, the error message is the last
\* message of the history, the status is error, and the cycle dispatches no
\* tool and makes no upstream call any more.
C16_ExceptionCaught ==
    [][\A t \in Slots :
          (StepOf(t) /\ last'.op \in {"tool_raise", "reply_raise"})
             => /\ tasks'[t] = IdleTask
                /\ taskStatus' = "error"
                /\ history'[Len(history')].kind \in {"tool_error", "reply_error"}
                /\ sent' = sent]_vars

C16_Witness ==
    /\ last.op \in {"tool_raise", "reply_raise"}
    /\ taskStatus = "error"
    /\ LiveTasks = {}

\* C17: once the task status is error, paused, cancelled or completed, the
\* messages endpoint reports that value as the status of the conversation.
C17_PollerSeesTerminal ==
    (exists /\ taskStatus \in Terminal)
       => PollStatus(history, taskStatus) = taskStatus


\* ------------------------------------------------ progress tracker properties
SpecTracker == Init /\ [][NextTracker]_vars

\* C18: whenever no update call is in progress, read returns exactly the
\* status, step, message and percentage of the update that completed last,
\* and the absent snapshot when no update was ever made.
C18_Overwrite ==
    (\A w \in Writers : tracker.pc[w] = "idle")
       => /\ tracker.done = tracker.issued
          /\ ReadProgress(tracker.store).status = tracker.done
          /\ ReadProgress(tracker.store).step = tracker.done
          /\ ReadProgress(tracker.store).message = tracker.done
          /\ ReadProgress(tracker.store).pct = tracker.done
          /\ (tracker.done = 0 => ReadProgress(tracker.store) = Absent)

C18_Witness ==
    /\ \A w \in Writers : tracker.pc[w] = "idle"
    /\ tracker.done >= 2
    /\ tracker.seen = Whole(tracker.done)

\* C19: every snapshot a reader observes has all five fields written by one
\* single update call: never a mix of two updates, never a snapshot without
\* its timestamp.
C19_ReadsWhole ==
    \E k \in 0..tracker.issued : tracker.seen = Whole(k)

C19_Witness ==
    /\ tracker.seen = Whole(1)
    /\ tracker.store = Whole(2)
    /\ \E w \in Writers : tracker.pc[w] = "fields" /\ tracker.arg[w] = 3


\* ------------------------------------------------------- counter properties
\* the step is task t receiving a model reply that holds tool invocations
ReplyWithTools(t) ==
    StepOf(t) /\ tasks[t].pc = "api" /\ nextId' > nextId

\* the step is a resume request accepted as far as the paused check
ResumeOfPaused ==
    last'.op = "resume" /\ last'.task = 0 /\ exists /\ taskStatus = "paused"

\* C20: autoExecuteCount starts at 0 and changes in only two ways: it grows
\* by exactly 1 each time a cycle with auto-execution on receives a reply
\* holding tool invocations, and resume sets it to 0; cancel, a chat turn,
\* completion, an error and a manual-mode cycle leave it alone.
C20_CountChanges ==
    /\ autoCount = 0
    /\ [][/\ \A t \in Slots :
                (ReplyWithTools(t) /\ tasks[t].auto) => autoCount' = autoCount + 1
          /\ ResumeOfPaused => autoCount' = 0
          /\ autoCount' # autoCount
                => \/ ResumeOfPaused
                   \/ \E t \in Slots : ReplyWithTools(t) /\ tasks[t].auto]_vars

C20_Witness ==
    /\ last.op = "resume" /\ last.code = 200
    /\ autoCount = 0
    /\ \E k \in 1..Len(history) : history[k].kind = "limit"

\* ------------------------------------------------------ history properties
\* the step is cycle t returning
Returns(t) == StepOf(t) /\ tasks[t].pc # "idle" /\ tasks'[t].pc = "idle"

NoPlaceholder(h) == \A k \in 1..Len(h) : ~h[k].ph

\* C21: whenever a cycle has returned and no other cycle is live, whatever
\* the outcome, the history holds no placeholder message.
C21_PlaceholderRemoved ==
    [][\A t \in Slots :
          (Returns(t) /\ LiveTasks \ {t} = {}) => NoPlaceholder(history')]_vars

\* C22: no message flagged as placeholder, status or temporary contributes
\* to the upstream request of a cycle, neither as an entry of the messages
\* list nor as text of the system instruction block.
C22_UpstreamFiltered ==
    sent.src = "cycle"
       => /\ \A k \in 1..Len(sent.sys) :
                ~sent.sys[k].ph /\ ~sent.sys[k].st /\ ~sent.sys[k].tmp
          /\ \A k \in 1..Len(sent.msgs) : sent.msgs[k].kind # "thinking"

\* positions of the bundled tool-result messages of a history
ResultsAt(h) == {k \in 1..Len(h) : h[k].kind = "results"}

\* C23: the calls of a batch are dispatched one after the other in input
\* order, each exactly once (when call i returns, exactly the calls before it
\* have returned, and call i+1 is the next to start), and step 3 appends
\* exactly one user message whose result blocks match the calls of the batch
\* one-to-one and in the same order.
C23_SequentialDispatch ==
    [][\A t \in Slots :
          (StepOf(t) /\ tasks[t].pc = "tool"
              /\ last'.op \in {"next_tool", "upstream"})
             => LET f == tasks[t]
                    n == Len(f.calls)
                IN /\ Len(f.results) = f.i - 1
                   /\ \A k \in 1..Len(f.results) : f.results[k].id = f.calls[k]
                   /\ tasks'[t].calls = f.calls
                   /\ Len(tasks'[t].results) = f.i
                   /\ tasks'[t].results[f.i].id = f.calls[f.i]
                   /\ SubSeq(tasks'[t].results, 1, f.i - 1) = f.results
                   /\ last'.op = "next_tool" <=> f.i < n
                   /\ last'.op = "next_tool" => tasks'[t].i = f.i + 1
                   /\ last'.op = "upstream"
                        => /\ Cardinality(ResultsAt(history'))
                                 = Cardinality(ResultsAt(history)) + 1
                           /\ LET m == history'[Len(history') - 1]
                              IN /\ m.role = "user" /\ m.kind = "results"
                                 /\ Len(m.res) = n
                                 /\ \A k \in 1..n : m.res[k].id = f.calls[k]]_vars

C23_Witness ==
    /\ last.op = "upstream"
    /\ \E t \in Slots :
          /\ tasks[t].pc = "api" /\ Len(tasks[t].calls) = 2
          /\ \E k \in 1..Len(history) :
                /\ history[k].kind = "results" /\ Len(history[k].res) = 2
                /\ \A j \in 1..2 : history[k].res[j].id = tasks[t].calls[j]

\* C24: if cancellation is set once the last tool of the batch is done and
\* before the results are bundled, the cycle returns at that point: the
\* history keeps the completion messages already emitted, gets no bundled
\* tool-result message for the batch, and no upstream call is made.
C24_ScenarioC ==
    [][\A t \in cancelReq :
          (StepOf(t) /\ tasks[t].pc = "tool" /\ tasks[t].i = Len(tasks[t].calls)
              /\ taskStatus = "cancelled" /\ last'.op # "tool_raise")
             => /\ tasks'[t].pc = "idle"
                /\ sent' = sent
                /\ Cardinality(ResultsAt(history')) = Cardinality(ResultsAt(history))
                /\ \E k \in 1..Len(history') :
                      /\ history'[k].kind = "executed"
                      /\ history'[k].ref = tasks[t].calls[tasks[t].i]]_vars

\* ------------------------------------------------------------- termination
\* the event loop runs a cycle that is ready: its tool dispatch or upstream
\* call returns and the cycle takes its next block
CycleStep(t) ==
    \/ CycleBegin(t)
    \/ \E out \in ToolKinds : CycleTool(t, out)
    \/ \E n \in 0..MaxBatch : CycleReply(t, n)
    \/ CycleApiFail(t)
    \/ CycleToolRaise(t)
    \/ CycleReplyRaise(t)

InitLive == InitWith({MixedEnv, LiveEnv})

SpecLive ==
    InitLive /\ [][Next]_vars /\ \A t \in Slots : WF_vars(CycleStep(t))

\* C25: when every dispatch and every upstream call returns, every started
\* cycle returns (or has used up the upstream calls this model allows); at
\* its return the status is completed, paused, cancelled or error; and a
\* cycle recurses only while the counter, which grows with every recursion
\* and is reset by resume alone, is at most 10, so that at most 11 automatic
\* continuations follow one another without a resume.
C25_Termination ==
    /\ \A t \in Slots :
          (tasks[t].pc # "idle") ~> (tasks[t].pc = "idle" \/ env.calls = 0)
    /\ [][\A t \in Slots :
             Returns(t) => taskStatus' \in {"completed", "paused", "cancelled", "error"}]_vars
    /\ [][\A t \in Slots :
             (StepOf(t) /\ last'.op = "recurse")
                => autoCount' = autoCount + 1 /\ autoCount' <= AutoExecuteLimit]_vars

C25_Witness ==
    /\ last.op = "complete"
    /\ taskStatus = "completed"
    /\ autoCount >= 2
    /\ LiveTasks = {}

\* ------------------------------------------------------------- concurrency
\* the cycles that have been entered and have not returned
Running == {t \in Slots : tasks[t].pc \in {"tool", "api"}}

\* C26: at most one cycle is live for the conversation at any time.
C26_SingleCycle == Cardinality(Running) <= 1

\* the messages of a history that carry none of the three flags
Real(h) == SelectSeq(h, LAMBDA m : ~m.ph /\ ~m.st /\ ~m.tmp)

\* C27: every step keeps the unflagged messages of the history, in their
\* order: what was there before the step is the beginning of what is there
\* after it.
C27_RealMessagesKept ==
    [][/\ Len(Real(history')) >= Len(Real(history))
       /\ SubSeq(Real(history'), 1, Len(Real(history))) = Real(history)]_vars

C27_Witness ==
    /\ last.op = "complete"
    /\ \E i, j, k \in 1..Len(history) :
          /\ i < j /\ j < k
          /\ history[i].kind = "cancelled"
          /\ history[j].kind = "results"
          /\ history[k].kind = "reply"
    /\ \A k \in 1..Len(history) :
          ~history[k].ph /\ ~history[k].tmp /\ history[k].kind # "executing"

\* ------------------------------------------------ the dictionaries: actions
\* every operation of a client is counted, and names its client and its kind
Did(c, kind) ==
    [store EXCEPT !.ops = @ + 1, !.by = c, !.kind = kind]

StoreUnchangedRest ==
    UNCHANGED <<exists, history, taskStatus, autoCount, progress, tasks,
                chat, sent, nextId, last, cancelReq, env, tracker, applied>>

\* chat.py:63-69, 195-206  a chat request without an id starts a conversation
StoreChat(c) ==
    /\ store.ops < MaxStoreOps
    /\ store.owner[c] = 0
    /\ \E id \in NewIds(store.clock) :
          store' = [Did(c, "chat") EXCEPT
                       !.clock = id,
                       !.owner[c] = id,
                       !.conversations[id] = @ \o <<UserText, AssistantMsg(<<>>)>>]
    /\ StoreUnchangedRest

\* conversation.py:76-87  add_message_to_conversation
StoreAddMessage(c, m) ==
    /\ store.ops < MaxStoreOps
    /\ store.owner[c] # 0
    /\ store' = [Did(c, "add") EXCEPT
                    !.conversations[store.owner[c]] = Append(@, m)]
    /\ StoreUnchangedRest

\* tool_execution.py:197-200  conversations[cid] = [the messages kept]
StoreStrip(c) ==
    /\ store.ops < MaxStoreOps
    /\ store.owner[c] # 0
    /\ store' = [Did(c, "strip") EXCEPT
                    !.conversations[store.owner[c]] = StripTemporary(@)]
    /\ StoreUnchangedRest

\* conversation.py:100-109  set_task_status, as called by cancel
StoreCancel(c) ==
    /\ store.ops < MaxStoreOps
    /\ store.owner[c] # 0
    /\ store' = [Did(c, "cancel") EXCEPT
                    !.auto_execute_tasks[store.owner[c]] = "cancelled"]
    /\ StoreUnchangedRest

\* conversation.py:123-137  increment_auto_execute_count
StoreIncrement(c) ==
    /\ store.ops < MaxStoreOps
    /\ store.owner[c] # 0
    /\ store' = [Did(c, "increment") EXCEPT
                    !.auto_execute_counts[store.owner[c]] = IncrementCount(@)]
    /\ StoreUnchangedRest

\* conversation.py:139-146  reset_auto_execute_count, as called by resume
StoreReset(c) ==
    /\ store.ops < MaxStoreOps
    /\ store.owner[c] # 0
    /\ store' = [Did(c, "reset") EXCEPT
                    !.auto_execute_counts[store.owner[c]] = ResetCount(@)]
    /\ StoreUnchangedRest

\* update_progress(conversation_id, ...)
StoreProgress(c) ==
    /\ store.ops < MaxStoreOps
    /\ store.owner[c] # 0
    /\ store' = [Did(c, "progress") EXCEPT
                    !.request_progress[store.owner[c]] =
                        Snapshot("executing_tool", "tool_execution", 25),
                    !.auto_execute_tasks[store.owner[c]] =
                        StatusAfterUpdate(@, "executing_tool")]
    /\ StoreUnchangedRest

NextStore ==
    \/ \E c \in Clients : StoreChat(c)
    \/ \E c \in Clients, m \in {SystemNote("cancelled"), DoneStatusMsg(1)} :
          StoreAddMessage(c, m)
    \/ \E c \in Clients : StoreStrip(c)
    \/ \E c \in Clients : StoreCancel(c)
    \/ \E c \in Clients : StoreIncrement(c)
    \/ \E c \in Clients : StoreReset(c)
    \/ \E c \in Clients : StoreProgress(c)

SpecStore == Init /\ [][NextStore]_vars

\* C28: an operation on one conversation (a cycle step, cancel, resume, a
\* counter increment or reset, a progress update) leaves the history, the
\* status, the counter and the progress of every other conversation as they
\* were.
C28_NoSharedState ==
    [][\A a, b \in Clients :
          (a # b /\ store.owner[a] # 0 /\ store.owner[b] # 0
              /\ store'.ops = store.ops + 1 /\ store'.by = a
              /\ store'.kind # "chat")
             => ViewOf(store', b) = ViewOf(store, b)]_vars

InitPause == InitWith({PauseEnv})

SpecPause == InitPause /\ [][Next]_vars

\* ------------------------------------------------------------------ resume
\* position of the last limit notice of a history (0: none)
LastLimit(h) ==
    LET L == {k \in 1..Len(h) : h[k].kind = "limit"}
    IN IF L = {} THEN 0 ELSE CHOOSE k \in L : \A j \in L : j <= k

\* the ids that already have a result in a bundled tool-result message
Answered(h) == UNION {ResIds(h[k]) : k \in ResultsAt(h)}

\* C29: a successful resume schedules a cycle with auto-execution on for
\* exactly the invocations of the reply that was pending when the
\* conversation paused (the assistant message right before the limit
\* notice), in their order, none of which has been dispatched before or is
\* held by another cycle.
C29_ResumePending ==
    [][(last'.op = "resume" /\ last'.code = 200
           /\ env'.resumes = env.resumes - 1)
          => LET t == FirstFree
                 k == LastLimit(history)
             IN /\ tasks'[t].pc = "queued"
                /\ tasks'[t].auto
                /\ k > 1
                /\ tasks'[t].calls = history[k - 1].uses
                /\ SeqToSet(tasks'[t].calls) \cap Answered(history) = {}
                /\ \A u \in Slots \ {t} :
                      SeqToSet(tasks[u].calls) \cap SeqToSet(tasks'[t].calls) = {}]_vars

\* C30: every upstream call made on a stored history, the cycle's and the
\* manual tool-result submission's alike, sends a list that has passed
\* through History Repair: the list is one the pairing fix leaves as it is.
C30_RepairBeforeEveryCall ==
    sent.src \in {"cycle", "submit"} => sent.msgs = Repair(sent.msgs)

\* ------------------------------------------------- the progress percentage
\* largest batch examined: one call more than 25, the span of the tool phase
PctBatch == 26

AppliedUnchangedRest ==
    UNCHANGED <<exists, history, taskStatus, autoCount, progress, tasks,
                chat, sent, nextId, last, cancelReq, env, tracker, store>>

\* tool_execution.py:110-115  a cycle over a batch of n calls has written 25
PctStart(n) == [fn |-> "pct", n |-> n, i |-> 0, at |-> "tools", pct |-> 25]

InitPct ==
    /\ InitBase({MixedEnv})
    /\ applied \in {PctStart(n) : n \in 1..PctBatch}

\* tool_execution.py:158-166  the write after the i-th tool of the batch
PctAfterTool ==
    /\ applied.at = "tools" /\ applied.i < applied.n
    /\ applied' = [applied EXCEPT !.i = @ + 1,
                                  !.pct = ToolPct(applied.i + 1, applied.n)]
    /\ AppliedUnchangedRest

\* tool_execution.py:213-219  the write before the upstream call
PctWaiting ==
    /\ applied.at = "tools" /\ applied.i = applied.n
    /\ applied' = [applied EXCEPT !.at = "waiting", !.pct = 50]
    /\ AppliedUnchangedRest

\* tool_execution.py:368-374  the write once the upstream call has returned
PctProcessing ==
    /\ applied.at = "waiting"
    /\ applied' = [applied EXCEPT !.at = "processing", !.pct = 75]
    /\ AppliedUnchangedRest

\* tool_execution.py:438-452, 475-481  the write the reply leads to:
\* completed 100, new tool calls 80, paused at the limit 90
PctReply(p) ==
    /\ applied.at = "processing"
    /\ p \in {100, 80, 90}
    /\ applied' = [applied EXCEPT !.at = "replied", !.pct = p]
    /\ AppliedUnchangedRest

\* tool_execution.py:178-184, 386-392, 505-511, 526-532  the write of an
\* error path
PctError ==
    /\ applied.at \in {"tools", "waiting", "processing"}
    /\ applied' = [applied EXCEPT !.at = "failed", !.pct = 0]
    /\ AppliedUnchangedRest

\* tool_execution.py:535-543  the write of the final clean-up
PctFinal ==
    /\ applied.at = "replied" /\ applied.pct = 80
    /\ applied' = [applied EXCEPT !.at = "closed", !.pct = 100]
    /\ AppliedUnchangedRest

NextPct ==
    \/ PctAfterTool
    \/ PctWaiting
    \/ PctProcessing
    \/ \E p \in {100, 80, 90} : PctReply(p)
    \/ PctError
    \/ PctFinal

SpecPct == InitPct /\ [][NextPct]_vars

\* the write after a tool of the batch
AfterTool == applied.at = "tools" /\ applied.i >= 1

\* v is the integer part of 25 + 25*i/n
IntegerPart(v, i, n) == (v - 25) * n <= 25 * i /\ 25 * i < (v - 24) * n

\* C31 (as stated): every percentage written lies in 0..100; the value after
\* the i-th tool of a batch of n is the integer part of 25 + 25*i/n, the
\* values do not decrease within the batch, start above 25 and are exactly
\* 50 after the last tool.
C31_ProgressPct ==
    /\ [](applied.pct \in 0..100)
    /\ [](AfterTool => /\ IntegerPart(applied.pct, applied.i, applied.n)
                       /\ applied.pct > 25
                       /\ applied.i = applied.n => applied.pct = 50)
    /\ [][(AfterTool /\ AfterTool') => applied'.pct >= applied.pct]_vars

\* C31 (amended): as stated, except that the values start at 25 or above, and
\* above 25 exactly when the batch has at most 25 calls.
C31_ProgressPctAmended ==
    /\ [](applied.pct \in 0..100)
    /\ [](AfterTool => /\ IntegerPart(applied.pct, applied.i, applied.n)
                       /\ applied.pct >= 25
                       /\ applied.n <= 25 => applied.pct > 25
                       /\ applied.i = applied.n => applied.pct = 50)
    /\ [][(AfterTool /\ AfterTool') => applied'.pct >= applied.pct]_vars

C31_Witness ==
    /\ applied.at = "tools" /\ applied.n = PctBatch /\ applied.i = 1
    /\ applied.pct = 25

\* C32: once the status is cancelled, no step of a cycle (progress update
\* after a tool, after the upstream call, on completion, final clean-up)
\* changes it; only a chat turn or a resume does.
C32_CancelledKept ==
    [][\A t \in Slots :
          (StepOf(t) /\ taskStatus = "cancelled") => taskStatus' = "cancelled"]_vars

\* ------------------------------------------------ concurrent resume requests
\* resume requests in flight at once
MaxResumers == 2

Resumers == 1..MaxResumers

\* a workload that reaches the limit and leaves one upstream call
ResumeEnv ==
    [calls |-> PauseCalls, events |-> 1, chats |-> 1,
     cancels |-> 0, submits |-> 0, starts |-> 0, resumes |-> 0, errs |-> 0,
     batch |-> 1, quiet |-> TRUE]

\* resume_auto_execution call by call: where each request stands (idle, await
\* = suspended in `await update_progress`, done) and the code it answered
ResumeIdle ==
    [fn |-> "resume", pc |-> [r \in Resumers |-> "idle"],
     code |-> [r \in Resumers |-> 0]]

InitResume == InitBase({ResumeEnv}) /\ applied = ResumeIdle

\* conversation.py (routes):163-177  the request is received (here: once the
\* conversation has reached the limit) and passes or fails the two tests; a
\* request that passes goes on to `await update_progress`
ResumeEnter(r) ==
    /\ applied.fn = "resume" /\ applied.pc[r] = "idle"
    /\ \E k \in 1..Len(history) : history[k].kind = "limit"
    /\ IF ~exists
       THEN /\ applied' = [applied EXCEPT !.pc[r] = "done",
                                          !.code[r] = RouteError(404)]
            /\ last' = Step("resume", RouteError(404), 0)
       ELSE IF taskStatus # "paused"
       THEN /\ applied' = [applied EXCEPT !.pc[r] = "done",
                                          !.code[r] = RouteError(400)]
            /\ last' = Step("resume", RouteError(400), 0)
       ELSE /\ applied' = [applied EXCEPT !.pc[r] = "await"]
            /\ last' = Step("resume_enter", 0, 0)
    /\ UNCHANGED <<exists, history, taskStatus, autoCount, progress, tasks,
                   chat, sent, nextId, cancelReq, env, tracker, store>>

\* conversation.py (routes):179-231  update_progress writes, the counter is
\* reset, the note is appended, the tool calls of the last assistant message
\* are scheduled
ResumeProceed(r) ==
    /\ applied.fn = "resume" /\ applied.pc[r] = "await"
    /\ FreeSlots # {}
    /\ UpdateProgress("resuming", "resuming_execution", 85)
    /\ autoCount' = ResetCount(autoCount)
    /\ LET h1 == Append(history, SystemNote("resumed"))
           ok == /\ \E k \in 1..Len(h1) : h1[k].role = "assistant"
                 /\ LastAssistantUses(h1) # <<>>
           code == IF ok THEN 200 ELSE RouteError(400)
       IN /\ history' = h1
          /\ tasks' = IF ok
                      THEN [tasks EXCEPT ![FirstFree] =
                               QueuedTask(LastAssistantUses(h1), TRUE)]
                      ELSE tasks
          /\ applied' = [applied EXCEPT !.pc[r] = "done", !.code[r] = code]
          /\ last' = Step("resume", code, 0)
    /\ cancelReq' = {}
    /\ UNCHANGED <<exists, chat, sent, nextId, env, tracker, store>>

NextResume ==
    \/ \E auto \in BOOLEAN : ChatStart(auto)
    \/ \E n \in 0..MaxBatch : ChatReply(n)
    \/ \E t \in Slots : CycleBegin(t)
    \/ \E t \in Slots, out \in ToolKinds : CycleTool(t, out)
    \/ \E t \in Slots, n \in 0..MaxBatch : CycleReply(t, n)
    \/ \E r \in Resumers : ResumeEnter(r)
    \/ \E r \in Resumers : ResumeProceed(r)

SpecResume == InitResume /\ [][NextResume]_vars

\* C33: for one pause at most one resume request succeeds (and so at most
\* one resumed cycle is started), however concurrent requests interleave.
C33_SingleFlightResume ==
    applied.fn = "resume"
       => Cardinality({r \in Resumers : applied.code[r] = 200}) <= 1

\* the step is a resume request that was rejected
ResumeRejected == last'.op = "resume" /\ last'.task = 0 /\ last'.code # 200

\* C34: a resume request that is rejected (unknown conversation, status not
\* paused, no assistant message, no tool invocation in the last assistant
\* message) starts no cycle and leaves history, autoExecuteCount, taskStatus
\* and progress as they were.
C34_RejectedResumeFrame ==
    [][ResumeRejected
          => /\ tasks' = tasks
             /\ history' = history
             /\ autoCount' = autoCount
             /\ taskStatus' = taskStatus
             /\ progress' = progress]_vars

\* C35: two conversations started by separate chat requests without an id
\* get distinct ids (and so distinct working directories, which are named by
\* the same clock second), even within one second.
C35_DistinctIds ==
    \A a, b \in Clients :
        (a # b /\ store.owner[a] # 0 /\ store.owner[b] # 0)
           => store.owner[a] # store.owner[b]

\* ------------------------------------------------------------ history repair
\* longest message list and largest number of invocation ids examined
RepairLen == 3

RepairIds == 2

\* tool_execution.py:256-264  the messages a list handed to the pairing fix
\* can hold: a user text, an assistant message with 0..RepairIds tool_use
\* blocks, a user message of tool_result blocks (real or "No result
\* available")
RepairAlphabet ==
    {CleanMsg(UserText)}
       \cup {CleanMsg(AssistantMsg(Ids(n, 0))) : n \in 0..RepairIds}
       \cup {CleanMsg(ResultsMsg([k \in 1..n |-> [id |-> k, out |-> o]])) :
                n \in 1..RepairIds, o \in {"ok", "none"}}

RepairInputs ==
    UNION {[1..n -> RepairAlphabet] : n \in 0..RepairLen}

\* the pass has not run yet on the list m
RepairStart(m) == [fn |-> "repair", m |-> m, once |-> <<>>, out |-> <<>>, passes |-> 0]

InitRepair ==
    /\ InitBase({MixedEnv})
    /\ applied \in {RepairStart(m) : m \in RepairInputs}

\* tool_execution.py:266-330  the pairing fix runs on the list
RepairFirst ==
    /\ applied.fn = "repair" /\ applied.passes = 0
    /\ LET r == Repair(applied.m)
       IN applied' = [applied EXCEPT !.once = r, !.out = r, !.passes = 1]
    /\ AppliedUnchangedRest

\* tool_execution.py:266-330  the pairing fix runs on its own result (the
\* next cycle repairs a list that was repaired before)
RepairAgain ==
    /\ applied.fn = "repair" /\ applied.passes = 1
    /\ applied' = [applied EXCEPT !.out = Repair(applied.once), !.passes = 2]
    /\ AppliedUnchangedRest

NextRepair ==
    \/ RepairFirst
    \/ RepairAgain

SpecRepair == InitRepair /\ [][NextRepair]_vars

\* C36: History Repair is idempotent: repairing a repaired list changes
\* nothing, and a list that satisfies the pairing rule is returned unchanged.
C36_RepairIdempotent ==
    applied.fn = "repair"
       => /\ applied.passes = 2 => applied.out = applied.once
          /\ (applied.passes >= 1 /\ Paired(applied.m))
                => applied.once = applied.m

C36_Witness ==
    /\ applied.fn = "repair" /\ applied.passes = 2
    /\ applied.once # applied.m
    /\ Len(applied.once) = Len(applied.m) + 2
    /\ applied.out = applied.once

\* r without the positions in drop
RECURSIVE Without(_, _, _)
Without(r, drop, k) ==
    IF k > Len(r) THEN <<>>
    ELSE IF k \in drop THEN Without(r, drop, k + 1)
    ELSE <<r[k]>> \o Without(r, drop, k + 1)

\* position k of r holds the "No result available" answers to the
\* invocations of the assistant message right before it
SynthesizedAt(r, k) ==
    /\ k > 1
    /\ r[k - 1].role = "assistant" /\ Len(r[k - 1].uses) > 0
    /\ r[k].role = "user" /\ r[k].kind = "results" /\ r[k].uses = <<>>
    /\ Len(r[k].res) = Len(r[k - 1].uses)
    /\ \A j \in 1..Len(r[k].res) :
          r[k].res[j] = [id |-> r[k - 1].uses[j], out |-> "none"]

\* C37: History Repair only inserts: the repaired list is the input list with
\* synthesized user messages added, each right after the assistant message
\* whose invocations it answers; taking them out gives the input list back.
C37_RepairOnlyInserts ==
    (applied.fn = "repair" /\ applied.passes >= 1)
       => \E drop \in SUBSET (1..Len(applied.once)) :
             /\ \A k \in drop : SynthesizedAt(applied.once, k)
             /\ Without(applied.once, drop, 1) = applied.m

C37_Witness ==
    /\ applied.fn = "repair" /\ applied.passes = 1
    /\ Len(applied.m) = 3 /\ Len(applied.once) = 4
    /\ Len(applied.m[2].uses) = 2
    /\ SynthesizedAt(applied.once, 3)
    /\ applied.once[4] = applied.m[3]

\* ------------------------------------------------------------ the dispatcher
\* tool_wrapper.py:222-229  TOOL_FUNCTIONS
Registry ==
    {"save_file", "read_file", "run_terminal_command",
     "install_python_package", "web_search", "extract_web_content"}

\* the names a call can carry: the registered ones and one that is not
ToolNames == Registry \cup {"no_such_tool"}

\* what the implementation does when it is run: returns a result with status
\* success, returns a result with status error (file_tools.py:63-77, a
\* missing file), or throws
Behaviours == {"succeeds", "fails", "raises"}

\* a tool call as process_tool_calls sees it: its name, whether the input
\* holds "file_path" and "content", whether a conversation id came with it
ToolCalls ==
    [name : ToolNames, path : BOOLEAN, content : BOOLEAN, cid : BOOLEAN,
     does : Behaviours]

\* the status of the dict the implementation returns
Reported(does) == IF does = "succeeds" THEN "success" ELSE "error"

\* tool_wrapper.py:401-408  the result built by the except branch
Thrown(ran) == [status |-> "error", inner |-> "none", ran |-> ran, unknown |-> FALSE]

\* the tool's own dict handed on as the result
Own(does) ==
    IF does = "raises" THEN Thrown(TRUE)
    ELSE [status |-> Reported(does), inner |-> "none", ran |-> TRUE,
          unknown |-> FALSE]

\* tool_wrapper.py:345-408  the result of one call: top-level status, the
\* status nested in its "content" (read_file), whether the implementation
\* was run, whether it is the "Unknown tool" result
ProcessToolCall(c) ==
    IF c.name = "save_file" /\ c.path /\ c.cid
    THEN IF ~c.content THEN Thrown(FALSE) ELSE Own(c.does)
    ELSE IF c.name = "read_file" /\ c.path /\ c.cid
    THEN IF c.does = "raises" THEN Thrown(TRUE)
         ELSE [status |-> "success", inner |-> Reported(c.does), ran |-> TRUE,
               unknown |-> FALSE]
    ELSE IF c.name \in {"run_terminal_command", "install_python_package",
                        "web_search", "extract_web_content"}
    THEN Own(c.does)
    ELSE [status |-> "error", inner |-> "none", ran |-> FALSE, unknown |-> TRUE]

DispatchStart(c) == [fn |-> "dispatch", call |-> c, done |-> FALSE]

InitDispatch ==
    /\ InitBase({MixedEnv})
    /\ applied \in {DispatchStart(c) : c \in ToolCalls}

\* tool_wrapper.py:333-423  process_tool_calls on the call
ProcessCall ==
    /\ applied.fn = "dispatch" /\ ~applied.done
    /\ applied' = [fn |-> "dispatch", call |-> applied.call, done |-> TRUE,
                   result |-> ProcessToolCall(applied.call)]
    /\ AppliedUnchangedRest

NextDispatch == ProcessCall

SpecDispatch == InitDispatch /\ [][NextDispatch]_vars

\* C38: when the tool of a dispatched call reports a failure, the top-level
\* status of the result is error, never success.
C38_FailureIsError ==
    (applied.fn = "dispatch" /\ applied.done
        /\ applied.result.ran /\ applied.call.does = "fails")
       => applied.result.status = "error"

\* C39: every name of the registry is dispatched to its implementation, with
\* or without a conversation id; the "Unknown tool" result is given exactly
\* for the names that are not in the registry.
C39_RegistryDispatched ==
    (applied.fn = "dispatch" /\ applied.done)
       => (applied.result.unknown <=> applied.call.name \notin Registry)

====
